---------------------------- MODULE Spec2Model ----------------------------
(***************************************************************************)
(* A model of the integer geometry kernel of src/src/geometry.rs: Offset,  *)
(* Size, Spacing and Region, and the operations on Region.                 *)
(*                                                                         *)
(* Every operation of the kernel is a pure function, so each one is an     *)
(* operator here, written branch for branch as the Rust code computes it.  *)
(* The state machine is a call of one operation: Init draws the receiver   *)
(* and the arguments from bounded sets, and one action per operation       *)
(* applies it and stores what it returns.                                  *)
(*                                                                         *)
(* Integers are mathematical integers: the inputs are drawn from ranges    *)
(* far from the ends of i32, so no i32 addition of the code overflows on   *)
(* them.                                                                   *)
(***************************************************************************)
EXTENDS Integers, Sequences, FiniteSets, TLC

VARIABLES
    self,       \* the receiver: a Region (&self), or the window of get_scroll_to_visible
    other,      \* the Region argument (other / region / container)
    margin,     \* the Spacing argument
    ints,       \* the integer arguments <<a, b>>: (cut_x, cut_y), (width, height), (cut, _)
    flags,      \* the remaining arguments: top, x_axis, y_axis, constrain_x, constrain_y
    items,      \* the collection argument: regions of from_union, pad of unpack
    op,         \* "init_<family>" before a call of that family, then the name of the operation called
    result,     \* the value the operation returned
    aux         \* values the operation computed on the way (locals of the function)

vars == <<self, other, margin, ints, flags, items, op, result, aux>>

-----------------------------------------------------------------------------
(* Bounds of the inputs.                                                   *)

MaxCoord == 1       \* x and y of a Region range over 0..MaxCoord (or -MaxCoord..MaxCoord)
MaxExt == 3         \* width and height range up to MaxExt ...
NegExt == 1         \* ... and down to -NegExt
MaxMargin == 1      \* the components of a Spacing range over -MaxMargin..MaxMargin
MaxCut == 2         \* integer arguments (cuts, clip sizes) range over -MaxCut..MaxCut
MaxSelfExt == 2     \* width and height of the Region constrain is called on: 1..MaxSelfExt

Coords == 0..MaxCoord
SignedCoords == (-MaxCoord)..MaxCoord
Extents == (-NegExt)..MaxExt
MarginValues == (-MaxMargin)..MaxMargin
CutValues == (-MaxCut)..MaxCut

-----------------------------------------------------------------------------
(* The value types.                                                        *)

Region(x, y, width, height) == [x |-> x, y |-> y, width |-> width, height |-> height]

Spacing(top, right, bottom, left) ==
    [top |-> top, right |-> right, bottom |-> bottom, left |-> left]

GeometryOffset(x, y) == [x |-> x, y |-> y]

Size(width, height) == [width |-> width, height |-> height]

Regions == [x : Coords, y : Coords, width : Extents, height : Extents]

SignedRegions == [x : SignedCoords, y : SignedCoords, width : Extents, height : Extents]

Spacings == [top : MarginValues, right : MarginValues,
             bottom : MarginValues, left : MarginValues]

ZeroRegion == Region(0, 0, 0, 0)
ZeroSpacing == Spacing(0, 0, 0, 0)
NoInts == <<0, 0>>
DefaultFlags ==
    [top |-> FALSE, x_axis |-> TRUE, y_axis |-> TRUE,
     constrain_x |-> "none", constrain_y |-> "none"]
NoItems == <<>>
NoResult == [none |-> TRUE]
NoAux == [none |-> TRUE]

-----------------------------------------------------------------------------
(* Helpers of the standard library the code calls.                         *)

imin(a, b) == IF a < b THEN a ELSE b

imax(a, b) == IF a > b THEN a ELSE b

iabs(a) == IF a < 0 THEN -a ELSE a

-----------------------------------------------------------------------------
(* Region getters.                                                         *)

right(r) == r.x + r.width

bottom(r) == r.y + r.height

area(r) == r.width * r.height

corners(r) == <<r.x, r.y, r.x + r.width, r.y + r.height>>

size(r) == Size(r.width, r.height)

-----------------------------------------------------------------------------
(* grow and shrink.                                                        *)

_grow_unfloored(r, m) ==
    IF m = ZeroSpacing
    THEN r
    ELSE Region(r.x - m.left, r.y - m.top,
                r.width + (m.left + m.right),
                r.height + (m.top + m.bottom))

_grow(r, m) ==
    IF m = ZeroSpacing
    THEN r
    ELSE Region(r.x - m.left, r.y - m.top,
                imax(0, r.width + (m.left + m.right)),
                imax(0, r.height + (m.top + m.bottom)))

grow(r, m) == IF m = ZeroSpacing THEN r ELSE _grow(r, m)

_shrink_right_for_left(r, m) ==
    IF m = ZeroSpacing
    THEN r
    ELSE Region(r.x + m.right, r.y + m.top,
                imax(0, r.width - (m.left + m.right)),
                imax(0, r.height - (m.top + m.bottom)))

_shrink(r, m) ==
    IF m = ZeroSpacing
    THEN r
    ELSE Region(r.x + m.left, r.y + m.top,
                imax(0, r.width - (m.left + m.right)),
                imax(0, r.height - (m.top + m.bottom)))

shrink(r, m) == IF m = ZeroSpacing THEN r ELSE _shrink(r, m)

get_spacing_between_sides_exchanged(r, region) ==
    Spacing(region.y - r.y,
            region.x - r.x,
            bottom(r) - bottom(region),
            right(r) - right(region))

get_spacing_between(r, region) ==
    Spacing(region.y - r.y,
            right(r) - right(region),
            bottom(r) - bottom(region),
            region.x - r.x)

-----------------------------------------------------------------------------
(* The calls of grow and shrink: region.grow(margin), region.shrink(margin)*)
(* and region.grow(margin).shrink(margin).                                 *)

InitMargin ==
    /\ self \in Regions
    /\ margin \in Spacings
    /\ other = ZeroRegion
    /\ ints = NoInts
    /\ flags = DefaultFlags
    /\ items = NoItems
    /\ op = "init_margin"
    /\ result = NoResult
    /\ aux = NoAux

Grow ==
    /\ op = "init_margin"
    /\ op' = "grow"
    /\ result' = grow(self, margin)
    /\ UNCHANGED <<self, other, margin, ints, flags, items, aux>>

Shrink ==
    /\ op = "init_margin"
    /\ op' = "shrink"
    /\ result' = shrink(self, margin)
    /\ UNCHANGED <<self, other, margin, ints, flags, items, aux>>

ShrinkGrown ==
    /\ op = "grow"
    /\ op' = "grow_shrink"
    /\ result' = shrink(result, margin)
    /\ UNCHANGED <<self, other, margin, ints, flags, items, aux>>

NextMargin == Grow \/ Shrink \/ ShrinkGrown

SpecMargin == InitMargin /\ [][NextMargin]_vars

NonShrinking(m) == m.top >= 0 /\ m.right >= 0 /\ m.bottom >= 0 /\ m.left >= 0

NonNegative(r) == r.width >= 0 /\ r.height >= 0

(* C1, as stated: for every Region r and every margin m whose components   *)
(* are all zero or all non-negative, r.grow(m).shrink(m) = r.              *)
C1_GrowShrinkEveryRegion ==
    (op = "grow_shrink" /\ NonShrinking(margin)) => result = self

(* C1, amended: r.grow(m).shrink(m) = r for every margin m with            *)
(* non-negative components and every Region r of non-negative width and    *)
(* height, and for every Region r when m is all zero.                      *)
C1_GrowShrinkNonNegative ==
    (op = "grow_shrink" /\ NonShrinking(margin)
        /\ (NonNegative(self) \/ margin = ZeroSpacing))
    => result = self

C1_Witness ==
    /\ op = "grow_shrink"
    /\ NonShrinking(margin)
    /\ margin.left > 0 /\ margin.top > 0
    /\ self.width > 0 /\ self.height > 0
    /\ result = self

(* C10, as stated: for every region and every margin, grow and shrink      *)
(* return a Region of width >= 0 and height >= 0, and for the all-zero     *)
(* margin both return a Region equal to the input.                         *)
C10_FlooredEveryMargin ==
    op \in {"grow", "shrink"} =>
        /\ result.width >= 0 /\ result.height >= 0
        /\ (margin = ZeroSpacing => result = self)

(* C10, amended: for every region and every margin that is not all zero,   *)
(* grow and shrink return a Region of width >= 0 and height >= 0; for the  *)
(* all-zero margin both return a Region equal to the input, negative       *)
(* extents included.                                                       *)
C10_FlooredNonZeroMargin ==
    op \in {"grow", "shrink"} =>
        /\ (margin # ZeroSpacing => result.width >= 0 /\ result.height >= 0)
        /\ (margin = ZeroSpacing => result = self)

C10_Witness ==
    /\ op = "grow"
    /\ margin # ZeroSpacing
    /\ self.width + (margin.left + margin.right) < 0
    /\ result.width = 0

-----------------------------------------------------------------------------
(* Predicates and binary operations on two Regions.                        *)

contains(r, x, y) ==
    r.x + r.width > x /\ x >= r.x /\ r.y + r.height > y /\ y >= r.y

overlaps_not_disjoint(r, o) ==
    LET x == corners(r)[1]
        y == corners(r)[2]
        x2 == corners(r)[3]
        y2 == corners(r)[4]
        ox == corners(o)[1]
        oy == corners(o)[2]
        ox2 == corners(o)[3]
        oy2 == corners(o)[4]
    IN  (x2 >= ox /\ ox2 >= x) /\ (y2 >= oy /\ oy2 >= y)

overlaps_no_enclosing(r, o) ==
    LET x == corners(r)[1]
        y == corners(r)[2]
        x2 == corners(r)[3]
        y2 == corners(r)[4]
        ox == corners(o)[1]
        oy == corners(o)[2]
        ox2 == corners(o)[3]
        oy2 == corners(o)[4]
    IN  /\ ((x2 > ox /\ ox >= x) \/ (x2 > ox2 /\ ox2 > x))
        /\ ((y2 > oy /\ oy >= y) \/ (y2 > oy2 /\ oy2 > y) \/ (oy < y /\ oy2 >= y2))

overlaps(r, o) ==
    LET x == corners(r)[1]
        y == corners(r)[2]
        x2 == corners(r)[3]
        y2 == corners(r)[4]
        ox == corners(o)[1]
        oy == corners(o)[2]
        ox2 == corners(o)[3]
        oy2 == corners(o)[4]
    IN  /\ ((x2 > ox /\ ox >= x) \/ (x2 > ox2 /\ ox2 > x) \/ (ox < x /\ ox2 >= x2))
        /\ ((y2 > oy /\ oy >= y) \/ (y2 > oy2 /\ oy2 > y) \/ (oy < y /\ oy2 >= y2))

contains_region(r, o) ==
    LET x1 == corners(r)[1]
        y1 == corners(r)[2]
        x2 == corners(r)[3]
        y2 == corners(r)[4]
        ox == corners(o)[1]
        oy == corners(o)[2]
        ox2 == corners(o)[3]
        oy2 == corners(o)[4]
    IN  /\ (x2 >= ox /\ ox >= x1)
        /\ (y2 >= oy /\ oy >= y1)
        /\ (x2 >= ox2 /\ ox2 >= x1)
        /\ (y2 >= oy2 /\ oy2 >= y1)

intersection_inclusive_far(r, region) ==
    LET x1 == r.x
        y1 == r.y
        w1 == r.width
        h1 == r.height
        cx1 == region.x
        cy1 == region.y
        w2 == region.width
        h2 == region.height
        x2 == x1 + w1
        y2 == y1 + h1
        cx2 == cx1 + w2
        cy2 == cy1 + h2
        rx1 == IF x1 > cx2 THEN cx2 ELSE IF x1 < cx1 THEN cx1 ELSE x1
        ry1 == IF y1 > cy2 THEN cy2 ELSE IF y1 < cy1 THEN cy1 ELSE y1
        rx2 == IF x2 > cx2 THEN cx2 ELSE IF x2 < cx1 THEN cx1 ELSE x2
        ry2 == IF y2 > cy2 THEN cy2 ELSE IF y2 < cy1 THEN cy1 ELSE y2
    IN  Region(rx1, ry1, rx2 - rx1 - 1, ry2 - ry1 - 1)

intersection(r, region) ==
    LET x1 == r.x
        y1 == r.y
        w1 == r.width
        h1 == r.height
        cx1 == region.x
        cy1 == region.y
        w2 == region.width
        h2 == region.height
        x2 == x1 + w1
        y2 == y1 + h1
        cx2 == cx1 + w2
        cy2 == cy1 + h2
        rx1 == IF x1 > cx2 THEN cx2 ELSE IF x1 < cx1 THEN cx1 ELSE x1
        ry1 == IF y1 > cy2 THEN cy2 ELSE IF y1 < cy1 THEN cy1 ELSE y1
        rx2 == IF x2 > cx2 THEN cx2 ELSE IF x2 < cx1 THEN cx1 ELSE x2
        ry2 == IF y2 > cy2 THEN cy2 ELSE IF y2 < cy1 THEN cy1 ELSE y2
    IN  Region(rx1, ry1, rx2 - rx1, ry2 - ry1)

union_own_left(r, region) ==
    LET x1 == corners(r)[1]
        y1 == corners(r)[2]
        x2 == corners(r)[3]
        y2 == corners(r)[4]
        ox1 == corners(region)[1]
        oy1 == corners(region)[2]
        ox2 == corners(region)[3]
        oy2 == corners(region)[4]
        x == x1
        y == imin(y1, oy1)
    IN  Region(x, y, imax(x2, ox2) - x, imax(y2, oy2) - y)

union(r, region) ==
    LET x1 == corners(r)[1]
        y1 == corners(r)[2]
        x2 == corners(r)[3]
        y2 == corners(r)[4]
        ox1 == corners(region)[1]
        oy1 == corners(region)[2]
        ox2 == corners(region)[3]
        oy2 == corners(region)[4]
        x == imin(x1, ox1)
        y == imin(y1, oy1)
    IN  Region(x, y, imax(x2, ox2) - x, imax(y2, oy2) - y)

-----------------------------------------------------------------------------
(* The calls on two Regions: self.intersection(other),                     *)
(* self.contains_region(other), self.overlaps(other), self.union(other).   *)

InitPair ==
    /\ self \in Regions
    /\ other \in Regions
    /\ margin = ZeroSpacing
    /\ ints = NoInts
    /\ flags = DefaultFlags
    /\ items = NoItems
    /\ op = "init_pair"
    /\ result = NoResult
    /\ aux = NoAux

Intersection ==
    /\ op = "init_pair"
    /\ op' = "intersection"
    /\ result' = intersection(self, other)
    /\ UNCHANGED <<self, other, margin, ints, flags, items, aux>>

ContainsRegion ==
    /\ op = "init_pair"
    /\ op' = "contains_region"
    /\ result' = contains_region(self, other)
    /\ UNCHANGED <<self, other, margin, ints, flags, items, aux>>

Overlaps ==
    /\ op = "init_pair"
    /\ op' = "overlaps"
    /\ result' = overlaps(self, other)
    /\ UNCHANGED <<self, other, margin, ints, flags, items, aux>>

Union ==
    /\ op = "init_pair"
    /\ op' = "union"
    /\ result' = union(self, other)
    /\ UNCHANGED <<self, other, margin, ints, flags, items, aux>>

GetSpacingBetween ==
    /\ op = "init_pair"
    /\ op' = "get_spacing_between"
    /\ result' = get_spacing_between(self, other)
    /\ UNCHANGED <<self, other, margin, ints, flags, items, aux>>

(* self.shrink(self.get_spacing_between(other)). *)
ShrinkSpacingBetween ==
    /\ op = "get_spacing_between"
    /\ op' = "shrink_spacing_between"
    /\ result' = shrink(self, result)
    /\ aux' = [spacing |-> result]
    /\ UNCHANGED <<self, other, margin, ints, flags, items>>

NextPair ==
    Intersection \/ ContainsRegion \/ Overlaps \/ Union \/ GetSpacingBetween \/ ShrinkSpacingBetween

SpecPair == InitPair /\ [][NextPair]_vars

(* The cells a property about containment is checked on: every cell any    *)
(* Region built from the inputs can contain lies among them.               *)
CellCoords ==
    (-(MaxCoord + MaxExt + NegExt + MaxCut)) .. (MaxCoord + MaxExt + NegExt + MaxCut)

Positive(r) == r.width > 0 /\ r.height > 0

CommonCell(a, b) ==
    \E px \in CellCoords, py \in CellCoords : contains(a, px, py) /\ contains(b, px, py)

(* The half-open intervals [a1, a2) and [b1, b2) have a point in common. *)
SpansIntersect(a1, a2, b1, b2) == imax(a1, b1) < imin(a2, b2)

SpansOverlap(a, b) ==
    /\ SpansIntersect(a.x, right(a), b.x, right(b))
    /\ SpansIntersect(a.y, bottom(a), b.y, bottom(b))

(* C2, as stated: for every Region r, negative extents included,           *)
(* r.intersection(r) = r and r.contains_region(r) is true.                 *)
C2_SelfIntersectionEveryRegion ==
    /\ (op = "intersection" /\ other = self) => result = self
    /\ (op = "contains_region" /\ other = self) => result = TRUE

(* C2, amended: for every Region r of non-negative width and height,       *)
(* r.intersection(r) = r and r.contains_region(r) is true.                 *)
C2_SelfIntersectionNonNegative ==
    /\ (op = "intersection" /\ other = self /\ NonNegative(self)) => result = self
    /\ (op = "contains_region" /\ other = self /\ NonNegative(self)) => result = TRUE

C2_Witness ==
    /\ op = "intersection"
    /\ other = self
    /\ Positive(self)
    /\ result = self

(* C8, as stated: for all Regions a and b, a.overlaps(b) is true exactly   *)
(* when the half-open column intervals and the half-open line intervals    *)
(* of a and b intersect, that is, exactly when some cell is contained in   *)
(* both a and b.                                                           *)
C8_OverlapsEveryRegion ==
    op = "overlaps" =>
        /\ result <=> SpansOverlap(self, other)
        /\ result <=> CommonCell(self, other)

(* C8, amended: for all Regions a and b of positive width and height,      *)
(* a.overlaps(b) is true exactly when the half-open column intervals and   *)
(* the half-open line intervals of a and b intersect, that is, exactly     *)
(* when some cell is contained in both; regions that only touch along an   *)
(* edge do not overlap, and nested or reversed-containment regions do.     *)
C8_OverlapsPositive ==
    (op = "overlaps" /\ Positive(self) /\ Positive(other)) =>
        /\ result <=> SpansOverlap(self, other)
        /\ result <=> CommonCell(self, other)

C8_Witness ==
    /\ op = "overlaps"
    /\ Positive(self) /\ Positive(other)
    /\ self.x < other.x /\ right(other) < right(self)
    /\ result = TRUE

C8_WitnessTouching ==
    /\ op = "overlaps"
    /\ Positive(self) /\ Positive(other)
    /\ right(self) = other.x
    /\ self.y = other.y
    /\ result = FALSE

-----------------------------------------------------------------------------
(* clamp, clip and split.                                                  *)

clamp(value, minimum, maximum) ==
    IF minimum > maximum
    THEN IF value < maximum THEN maximum
         ELSE IF value > minimum THEN minimum
         ELSE value
    ELSE IF value < minimum THEN minimum
         ELSE IF value > maximum THEN maximum
         ELSE value

clip_unclamped_far(r, width, height) ==
    LET x1 == corners(r)[1]
        y1 == corners(r)[2]
        x2 == corners(r)[3]
        y2 == corners(r)[4]
        x == clamp(x1, 0, width)
        y == clamp(y1, 0, height)
    IN  Region(x, y, x2 - x, y2 - y)

clip(r, width, height) ==
    LET x1 == corners(r)[1]
        y1 == corners(r)[2]
        x2 == corners(r)[3]
        y2 == corners(r)[4]
        x == clamp(x1, 0, width)
        y == clamp(y1, 0, height)
    IN  Region(x, y, clamp(x2, 0, width) - x, clamp(y2, 0, height) - y)

split_right_uncut(r, cut_x0, cut_y0) ==
    LET cut_x == IF cut_x0 < 0 THEN r.width + cut_x0 ELSE cut_x0
        cut_y == IF cut_y0 < 0 THEN r.height + cut_y0 ELSE cut_y0
    IN  << Region(r.x, r.y, cut_x, cut_y),
           Region(r.x + cut_x, r.y, r.width, cut_y),
           Region(r.x, r.y + cut_y, cut_x, r.height - cut_y),
           Region(r.x + cut_x, r.y + cut_y, r.width, r.height - cut_y) >>

split(r, cut_x0, cut_y0) ==
    LET cut_x == IF cut_x0 < 0 THEN r.width + cut_x0 ELSE cut_x0
        cut_y == IF cut_y0 < 0 THEN r.height + cut_y0 ELSE cut_y0
    IN  << Region(r.x, r.y, cut_x, cut_y),
           Region(r.x + cut_x, r.y, r.width - cut_x, cut_y),
           Region(r.x, r.y + cut_y, cut_x, r.height - cut_y),
           Region(r.x + cut_x, r.y + cut_y, r.width - cut_x, r.height - cut_y) >>

-----------------------------------------------------------------------------
(* The calls with integer arguments: self.clip(width, height) and          *)
(* self.split(cut_x, cut_y).                                               *)

InitCut ==
    /\ self \in SignedRegions
    /\ ints \in CutValues \X CutValues
    /\ other = ZeroRegion
    /\ margin = ZeroSpacing
    /\ flags = DefaultFlags
    /\ items = NoItems
    /\ op = "init_cut"
    /\ result = NoResult
    /\ aux = NoAux

Clip ==
    /\ op = "init_cut"
    /\ op' = "clip"
    /\ result' = clip(self, ints[1], ints[2])
    /\ UNCHANGED <<self, other, margin, ints, flags, items, aux>>

Split ==
    /\ op = "init_cut"
    /\ op' = "split"
    /\ result' = split(self, ints[1], ints[2])
    /\ UNCHANGED <<self, other, margin, ints, flags, items, aux>>

NextCut == Clip \/ Split

SpecCut == InitCut /\ [][NextCut]_vars

(* The cut measured from the near edge: a negative cut counts from the far *)
(* edge.                                                                   *)
EffectiveCut(cut, extent) == IF cut < 0 THEN extent + cut ELSE cut

CutInside(r, cut_x, cut_y) ==
    /\ 0 <= EffectiveCut(cut_x, r.width) /\ EffectiveCut(cut_x, r.width) <= r.width
    /\ 0 <= EffectiveCut(cut_y, r.height) /\ EffectiveCut(cut_y, r.height) <= r.height

Quadrants == 1..4

QuadrantsWith(q, px, py) == {i \in Quadrants : contains(q[i], px, py)}

AreasSum(r, q) == area(q[1]) + area(q[2]) + area(q[3]) + area(q[4]) = area(r)

Tiles(r, q) ==
    \A px \in CellCoords, py \in CellCoords :
        /\ contains(r, px, py) => Cardinality(QuadrantsWith(q, px, py)) = 1
        /\ ~contains(r, px, py) => QuadrantsWith(q, px, py) = {}

(* C3, as stated: for every Region r and every cut point, the four regions *)
(* of r.split(cut_x, cut_y) exactly tile r: every cell of r is in exactly  *)
(* one quadrant, no quadrant contains a cell r does not contain, and the   *)
(* four areas sum to r's area.                                             *)
C3_SplitTilesEveryCut ==
    op = "split" => (Tiles(self, result) /\ AreasSum(self, result))

(* C3, amended: for every Region r and every cut point the four areas sum  *)
(* to r's area; when the cut point, measured from the near edges (a        *)
(* negative cut counting from the far edge), lies within 0..width and      *)
(* 0..height, the four quadrants exactly tile r.                           *)
C3_SplitTilesCutInside ==
    op = "split" =>
        /\ AreasSum(self, result)
        /\ CutInside(self, ints[1], ints[2]) => Tiles(self, result)

C3_Witness ==
    /\ op = "split"
    /\ CutInside(self, ints[1], ints[2])
    /\ \A i \in Quadrants : Positive(result[i])
    /\ ints[1] < 0 /\ ints[2] > 0
    /\ Tiles(self, result)

(* C4, as stated: for every Region r and every (width, height) argument,   *)
(* r.clip(width, height) has width >= 0 and height >= 0.                   *)
C4_ClipNonNegativeEveryRegion ==
    op = "clip" => (result.width >= 0 /\ result.height >= 0)

(* C4, amended: for every Region r of non-negative width and height and    *)
(* every (width, height) argument, r.clip(width, height) has width >= 0    *)
(* and height >= 0.                                                        *)
C4_ClipNonNegative ==
    (op = "clip" /\ NonNegative(self)) => (result.width >= 0 /\ result.height >= 0)

C4_Witness ==
    /\ op = "clip"
    /\ Positive(self)
    /\ self.x < 0 /\ right(self) > ints[1] /\ ints[1] > 0
    /\ result.width = ints[1]
    /\ result.x = 0

C4_WitnessInverted ==
    /\ op = "clip"
    /\ Positive(self)
    /\ ints[1] < 0
    /\ result.width > 0

-----------------------------------------------------------------------------
(* translate, crop_size and get_scroll_to_visible.                         *)

_as_tuple(sz) == <<sz.width, sz.height>>

translate(r, offset) == Region(r.x + offset.x, r.y + offset.y, r.width, r.height)

_crop_size(r, sz) == Region(r.x, r.y, imin(r.width, sz[1]), imin(r.height, sz[2]))

get_scroll_to_visible_uncropped(window_region, region, top) ==
    IF ~top /\ contains_region(window_region, region)
    THEN GeometryOffset(0, 0)
    ELSE
        LET window_left == corners(window_region)[1]
            window_top == corners(window_region)[2]
            window_right == corners(window_region)[3]
            window_bottom == corners(window_region)[4]
            r == region
            left == corners(r)[1]
            top_ == corners(r)[2]
            right_ == corners(r)[3]
            bottom_ == corners(r)[4]
            delta_x ==
                IF ~((window_right > left /\ left >= window_left)
                     /\ (window_right > right_ /\ right_ >= window_left))
                THEN LET option1 == left - window_left
                         option2 == left - (window_right - r.width)
                     IN  IF iabs(option1) < iabs(option2) THEN option1 ELSE option2
                ELSE 0
            delta_y ==
                IF top
                THEN top_ - window_top
                ELSE IF ~((window_bottom > top_ /\ top_ >= window_top)
                          /\ (window_bottom > bottom_ /\ bottom_ >= window_top))
                THEN LET option1 == top_ - window_top
                         option2 == top_ - (window_bottom - r.height)
                     IN  IF iabs(option1) < iabs(option2) THEN option1 ELSE option2
                ELSE 0
        IN  GeometryOffset(delta_x, delta_y)

get_scroll_to_visible_far_edge(window_region, region, top) ==
    IF ~top /\ contains_region(window_region, region)
    THEN GeometryOffset(0, 0)
    ELSE
        LET window_left == corners(window_region)[1]
            window_top == corners(window_region)[2]
            window_right == corners(window_region)[3]
            window_bottom == corners(window_region)[4]
            r == _crop_size(region, _as_tuple(size(window_region)))
            left == corners(r)[1]
            top_ == corners(r)[2]
            right_ == corners(r)[3]
            bottom_ == corners(r)[4]
            delta_x ==
                IF ~((window_right > left /\ left >= window_left)
                     /\ (window_right > right_ /\ right_ >= window_left))
                THEN LET option1 == left - window_left
                         option2 == left - window_right
                     IN  IF iabs(option1) < iabs(option2) THEN option1 ELSE option2
                ELSE 0
            delta_y ==
                IF top
                THEN top_ - window_top
                ELSE IF ~((window_bottom > top_ /\ top_ >= window_top)
                          /\ (window_bottom > bottom_ /\ bottom_ >= window_top))
                THEN LET option1 == top_ - window_top
                         option2 == top_ - (window_bottom - r.height)
                     IN  IF iabs(option1) < iabs(option2) THEN option1 ELSE option2
                ELSE 0
        IN  GeometryOffset(delta_x, delta_y)

get_scroll_to_visible_no_early_return(window_region, region, top) ==
    IF FALSE
    THEN GeometryOffset(0, 0)
    ELSE
        LET window_left == corners(window_region)[1]
            window_top == corners(window_region)[2]
            window_right == corners(window_region)[3]
            window_bottom == corners(window_region)[4]
            r == _crop_size(region, _as_tuple(size(window_region)))
            left == corners(r)[1]
            top_ == corners(r)[2]
            right_ == corners(r)[3]
            bottom_ == corners(r)[4]
            delta_x ==
                IF ~((window_right > left /\ left >= window_left)
                     /\ (window_right > right_ /\ right_ >= window_left))
                THEN LET option1 == left - window_left
                         option2 == left - (window_right - r.width)
                     IN  IF iabs(option1) < iabs(option2) THEN option1 ELSE option2
                ELSE 0
            delta_y ==
                IF top
                THEN top_ - window_top
                ELSE IF ~((window_bottom > top_ /\ top_ >= window_top)
                          /\ (window_bottom > bottom_ /\ bottom_ >= window_top))
                THEN LET option1 == top_ - window_top
                         option2 == top_ - (window_bottom - r.height)
                     IN  IF iabs(option1) < iabs(option2) THEN option1 ELSE option2
                ELSE 0
        IN  GeometryOffset(delta_x, delta_y)

get_scroll_to_visible_early_return(window_region, region, top) ==
    IF contains_region(window_region, region)
    THEN GeometryOffset(0, 0)
    ELSE
        LET window_left == corners(window_region)[1]
            window_top == corners(window_region)[2]
            window_right == corners(window_region)[3]
            window_bottom == corners(window_region)[4]
            r == _crop_size(region, _as_tuple(size(window_region)))
            left == corners(r)[1]
            top_ == corners(r)[2]
            right_ == corners(r)[3]
            bottom_ == corners(r)[4]
            delta_x ==
                IF ~((window_right > left /\ left >= window_left)
                     /\ (window_right > right_ /\ right_ >= window_left))
                THEN LET option1 == left - window_left
                         option2 == left - (window_right - r.width)
                     IN  IF iabs(option1) < iabs(option2) THEN option1 ELSE option2
                ELSE 0
            delta_y ==
                IF top
                THEN top_ - window_top
                ELSE IF ~((window_bottom > top_ /\ top_ >= window_top)
                          /\ (window_bottom > bottom_ /\ bottom_ >= window_top))
                THEN LET option1 == top_ - window_top
                         option2 == top_ - (window_bottom - r.height)
                     IN  IF iabs(option1) < iabs(option2) THEN option1 ELSE option2
                ELSE 0
        IN  GeometryOffset(delta_x, delta_y)

get_scroll_to_visible(window_region, region, top) ==
    IF ~top /\ contains_region(window_region, region)
    THEN GeometryOffset(0, 0)
    ELSE
        LET window_left == corners(window_region)[1]
            window_top == corners(window_region)[2]
            window_right == corners(window_region)[3]
            window_bottom == corners(window_region)[4]
            r == _crop_size(region, _as_tuple(size(window_region)))
            left == corners(r)[1]
            top_ == corners(r)[2]
            right_ == corners(r)[3]
            bottom_ == corners(r)[4]
            delta_x ==
                IF ~((window_right > left /\ left >= window_left)
                     /\ (window_right > right_ /\ right_ >= window_left))
                THEN LET option1 == left - window_left
                         option2 == left - (window_right - r.width)
                     IN  IF iabs(option1) < iabs(option2) THEN option1 ELSE option2
                ELSE 0
            delta_y ==
                IF top
                THEN top_ - window_top
                ELSE IF ~((window_bottom > top_ /\ top_ >= window_top)
                          /\ (window_bottom > bottom_ /\ bottom_ >= window_top))
                THEN LET option1 == top_ - window_top
                         option2 == top_ - (window_bottom - r.height)
                     IN  IF iabs(option1) < iabs(option2) THEN option1 ELSE option2
                ELSE 0
        IN  GeometryOffset(delta_x, delta_y)

-----------------------------------------------------------------------------
(* The call Region.get_scroll_to_visible(window_region, region, top=top):  *)
(* self is the window, other the region.                                   *)

ScrollExample == <<Region(0, 0, 80, 24), Region(90, 0, 10, 1)>>

InitScroll ==
    /\ \E pair \in (Regions \X Regions) \cup {ScrollExample} :
           self = pair[1] /\ other = pair[2]
    /\ flags \in {[DefaultFlags EXCEPT !.top = t] : t \in BOOLEAN}
    /\ margin = ZeroSpacing
    /\ ints = NoInts
    /\ items = NoItems
    /\ op = "init_scroll"
    /\ result = NoResult
    /\ aux = NoAux

GetScrollToVisible ==
    /\ op = "init_scroll"
    /\ op' = "get_scroll_to_visible"
    /\ result' = get_scroll_to_visible(self, other, flags.top)
    /\ UNCHANGED <<self, other, margin, ints, flags, items, aux>>

NextScroll == GetScrollToVisible

SpecScroll == InitScroll /\ [][NextScroll]_vars

(* v lies in the half-open span [near, far). *)
InSpan(v, near, far) == near <= v /\ v < far

(* d is one of the two candidates and no candidate is smaller in absolute  *)
(* value.                                                                  *)
SmallerCandidate(d, c1, c2) ==
    /\ d \in {c1, c2}
    /\ iabs(d) <= iabs(c1)
    /\ iabs(d) <= iabs(c2)

ScrollRule(d, near, far, window_near, window_far) ==
    IF InSpan(near, window_near, window_far) /\ InSpan(far, window_near, window_far)
    THEN d = 0
    ELSE SmallerCandidate(d, near - window_near, far - window_far)

Cropped == _crop_size(other, _as_tuple(size(self)))

ScrollRuleX == ScrollRule(result.x, Cropped.x, right(Cropped), self.x, right(self))

ScrollRuleY == ScrollRule(result.y, Cropped.y, bottom(Cropped), self.y, bottom(self))

(* C5: for every window of positive width and height, every region of      *)
(* non-negative width and height and either value of top, the window       *)
(* translated by the returned offset contains the region cropped to the    *)
(* window's size.                                                          *)
C5_ScrollMakesVisible ==
    (op = "get_scroll_to_visible" /\ Positive(self) /\ NonNegative(other)) =>
        contains_region(translate(self, result), Cropped)

C5_Witness ==
    /\ op = "get_scroll_to_visible"
    /\ Positive(self) /\ NonNegative(other)
    /\ ~contains_region(self, other)
    /\ other.width > self.width
    /\ result.x # 0 /\ result.y # 0
    /\ contains_region(translate(self, result), Cropped)

(* C6, as stated: when the cropped region's left and right edges are not   *)
(* both within [window_left, window_right), delta_x is the candidate of    *)
(* smaller absolute value among region.left - window.left and              *)
(* region.right - window.right, and 0 otherwise; for top = false the same  *)
(* rule gives delta_y from the top and bottom edges.                       *)
C6_SmallerCandidateEveryRegion ==
    op = "get_scroll_to_visible" =>
        /\ ScrollRuleX
        /\ ~flags.top => ScrollRuleY

(* C6, amended: the same rule, for every region of non-negative width and  *)
(* height; window = Region(0,0,80,24), region = Region(90,0,10,1),         *)
(* top = false yields x = 20, the smaller of the candidates 90 and 20, and *)
(* y = 0.                                                                  *)
C6_SmallerCandidateNonNegative ==
    (op = "get_scroll_to_visible" /\ NonNegative(other)) =>
        /\ ScrollRuleX
        /\ ~flags.top => ScrollRuleY
        /\ (<<self, other>> = ScrollExample /\ ~flags.top) => result = GeometryOffset(20, 0)

C6_Witness ==
    /\ op = "get_scroll_to_visible"
    /\ <<self, other>> = ScrollExample
    /\ ~flags.top
    /\ result.x > 0 /\ result.y = 0
    /\ result.x = 90 - 70

(* C16: with top = false, get_scroll_to_visible returns Offset(0, 0)        *)
(* whenever window.contains_region(region) holds, for every window and     *)
(* region, whatever the sign of their widths and heights.                  *)
C16_VisibleNoScroll ==
    (op = "get_scroll_to_visible" /\ ~flags.top /\ contains_region(self, other)) =>
        result = GeometryOffset(0, 0)

(* A region of zero width on the window's right edge: contained, though    *)
(* its edges are outside the half-open span the later test uses.           *)
C16_Witness ==
    /\ op = "get_scroll_to_visible"
    /\ ~flags.top
    /\ contains_region(self, other)
    /\ Positive(self)
    /\ other.x = right(self)
    /\ result = GeometryOffset(0, 0)

C16_WitnessInside ==
    /\ op = "get_scroll_to_visible"
    /\ ~flags.top
    /\ contains_region(self, other)
    /\ Positive(other)
    /\ other.x > self.x
    /\ right(other) < right(self)
    /\ result = GeometryOffset(0, 0)

(* C17: with top = true, delta_y is region.y - window.y for every window   *)
(* and region, also when the window already contains the region, and       *)
(* delta_x follows the two-candidate rule: 0 when the cropped region's     *)
(* left and right edges lie within [window_left, window_right), otherwise  *)
(* the candidate of smaller absolute value.                                *)
C17_TopAlwaysAligns ==
    (op = "get_scroll_to_visible" /\ flags.top) =>
        /\ result.y = other.y - self.y
        /\ ScrollRuleX

C17_Witness ==
    /\ op = "get_scroll_to_visible"
    /\ flags.top
    /\ contains_region(self, other)
    /\ Positive(self) /\ Positive(other)
    /\ other.y > self.y
    /\ result = GeometryOffset(0, other.y - self.y)

C17_WitnessScrollsX ==
    /\ op = "get_scroll_to_visible"
    /\ flags.top
    /\ ~contains_region(self, other)
    /\ result.x # 0
    /\ result.y = other.y - self.y
    /\ result.y < 0

-----------------------------------------------------------------------------
(* translate_inside.                                                       *)

translate_inside_floor_first(r, container, x_axis, y_axis) ==
    LET x1 == container.x
        y1 == container.y
        width1 == container.width
        height1 == container.height
        x2 == r.x
        y2 == r.y
        width2 == r.width
        height2 == r.height
    IN  Region(IF x_axis THEN imin(imax(x2, x1), x1 + width1 - width2) ELSE x2,
               IF y_axis THEN imin(imax(y2, y1), y1 + height1 - height2) ELSE y2,
               width2,
               height2)

translate_inside(r, container, x_axis, y_axis) ==
    LET x1 == container.x
        y1 == container.y
        width1 == container.width
        height1 == container.height
        x2 == r.x
        y2 == r.y
        width2 == r.width
        height2 == r.height
    IN  Region(IF x_axis THEN imax(imin(x2, x1 + width1 - width2), x1) ELSE x2,
               IF y_axis THEN imax(imin(y2, y1 + height1 - height2), y1) ELSE y2,
               width2,
               height2)

-----------------------------------------------------------------------------
(* The call self.translate_inside(container, x_axis, y_axis): other is the *)
(* container.                                                              *)

InitInside ==
    /\ self \in Regions
    /\ other \in Regions
    /\ flags \in {[DefaultFlags EXCEPT !.x_axis = a, !.y_axis = b] :
                    a \in BOOLEAN, b \in BOOLEAN}
    /\ margin = ZeroSpacing
    /\ ints = NoInts
    /\ items = NoItems
    /\ op = "init_inside"
    /\ result = NoResult
    /\ aux = NoAux

TranslateInside ==
    /\ op = "init_inside"
    /\ op' = "translate_inside"
    /\ result' = translate_inside(self, other, flags.x_axis, flags.y_axis)
    /\ UNCHANGED <<self, other, margin, ints, flags, items, aux>>

NextInside == TranslateInside

SpecInside == InitInside /\ [][NextInside]_vars

(* The span [near, near + extent] lies inside [c_near, c_near + c_extent]. *)
SpanInside(near, extent, c_near, c_extent) ==
    c_near <= near /\ near + extent <= c_near + c_extent

(* What translate_inside does on one axis: s_ is self, c_ the container,   *)
(* r_near the near edge of the result.                                     *)
InsideRule(enabled, s_near, s_extent, c_near, c_extent, r_near) ==
    IF ~enabled
    THEN r_near = s_near
    ELSE IF s_extent <= c_extent
    THEN /\ SpanInside(r_near, s_extent, c_near, c_extent)
         /\ SpanInside(s_near, s_extent, c_near, c_extent) => r_near = s_near
    ELSE r_near = c_near

(* C9: translate_inside keeps self's width and height and, per enabled     *)
(* axis: if self's extent is <= the container's, the result's span lies    *)
(* inside the container's span and equals self's span when self already    *)
(* lies inside; if self's extent is larger, the result's near edge equals  *)
(* the container's near edge. A disabled axis keeps self's coordinate.     *)
C9_TranslateInside ==
    op = "translate_inside" =>
        /\ result.width = self.width
        /\ result.height = self.height
        /\ InsideRule(flags.x_axis, self.x, self.width, other.x, other.width, result.x)
        /\ InsideRule(flags.y_axis, self.y, self.height, other.y, other.height, result.y)

C9_Witness ==
    /\ op = "translate_inside"
    /\ flags.x_axis /\ flags.y_axis
    /\ Positive(self) /\ Positive(other)
    /\ self.width > other.width
    /\ self.x > other.x
    /\ result.x = other.x
    /\ self.height <= other.height
    /\ bottom(self) > bottom(other)
    /\ bottom(result) = bottom(other)

-----------------------------------------------------------------------------
(* inflect and constrain.                                                  *)

max_width(m) == imax(m.left, m.right)

max_height(m) == imax(m.top, m.bottom)

inflect(r, x_axis, y_axis, inflect_margin) ==
    LET x == IF x_axis # 0 THEN r.x + (r.width + max_width(inflect_margin)) * x_axis
             ELSE r.x
        y == IF y_axis # 0 THEN r.y + (r.height + max_height(inflect_margin)) * y_axis
             ELSE r.y
    IN  Region(x, y, r.width, r.height)

compare_span(span_start, span_end, container_start, container_end) ==
    IF span_start > container_start /\ span_end <= container_end
    THEN 0
    ELSE IF span_start < container_start
    THEN -1
    ELSE 1

(* The span comparisons constrain makes, <<for x, for y>>: 0 for an axis   *)
(* whose mode is not "inflect", where none is made.                        *)
constrain_compare(r, constrain_x, constrain_y, m, container) ==
    LET margin_region == _grow(r, m)
    IN  << IF constrain_x = "inflect"
           THEN compare_span(margin_region.x, right(margin_region),
                             container.x, right(container))
           ELSE 0,
           IF constrain_y = "inflect"
           THEN compare_span(margin_region.y, bottom(margin_region),
                             container.y, bottom(container))
           ELSE 0 >>

(* The local region of constrain before the final translate_inside. *)
constrain_inflected(r, constrain_x, constrain_y, m, container) ==
    IF constrain_x = "inflect" \/ constrain_y = "inflect"
    THEN LET x_axis == -constrain_compare(r, constrain_x, constrain_y, m, container)[1]
             y_axis == -constrain_compare(r, constrain_x, constrain_y, m, container)[2]
         IN  inflect(r, x_axis, y_axis, m)
    ELSE r

constrain_inside_both(r, constrain_x, constrain_y, m, container) ==
    translate_inside(constrain_inflected(r, constrain_x, constrain_y, m, container),
                     _shrink(container, m),
                     TRUE,
                     TRUE)

constrain(r, constrain_x, constrain_y, m, container) ==
    translate_inside(constrain_inflected(r, constrain_x, constrain_y, m, container),
                     _shrink(container, m),
                     constrain_x # "none",
                     constrain_y # "none")

-----------------------------------------------------------------------------
(* The call self.constrain(constrain_x, constrain_y, margin, container):   *)
(* other is the container.                                                 *)

ConstrainModes == {"none", "inside", "inflect"}

ConstrainSelves == [x : Coords, y : Coords, width : 1..MaxSelfExt, height : 1..MaxSelfExt]

ConstrainContainers == [x : {0}, y : {0}, width : 1..MaxExt, height : 1..MaxExt]

ConstrainMargins == [top : 0..MaxMargin, right : 0..MaxMargin,
                     bottom : 0..MaxMargin, left : 0..MaxMargin]

InitConstrain ==
    /\ self \in ConstrainSelves
    /\ other \in ConstrainContainers
    /\ margin \in ConstrainMargins
    /\ flags \in {[DefaultFlags EXCEPT !.constrain_x = a, !.constrain_y = b] :
                    a \in ConstrainModes, b \in ConstrainModes}
    /\ ints = NoInts
    /\ items = NoItems
    /\ op = "init_constrain"
    /\ result = NoResult
    /\ aux = NoAux

Constrain ==
    /\ op = "init_constrain"
    /\ op' = "constrain"
    /\ result' = constrain(self, flags.constrain_x, flags.constrain_y, margin, other)
    /\ aux' = [compare |-> constrain_compare(self, flags.constrain_x, flags.constrain_y, margin, other),
               region |-> constrain_inflected(self, flags.constrain_x, flags.constrain_y, margin, other)]
    /\ UNCHANGED <<self, other, margin, ints, flags, items>>

NextConstrain == Constrain

SpecConstrain == InitConstrain /\ [][NextConstrain]_vars

(* The tri-state comparison of a span against a container span: 0 when    *)
(* the span fits, -1 when it starts before the container, +1 when it ends  *)
(* after it.                                                               *)
SpanComparison(span_start, span_end, container_start, container_end, c) ==
    /\ (span_start >= container_start /\ span_end <= container_end) => c = 0
    /\ span_start < container_start => c = -1
    /\ (span_start >= container_start /\ span_end > container_end) => c = 1

Grown == _grow(self, margin)

(* C7: for an axis whose mode is "inflect", the span comparison of the     *)
(* margin-grown self against the container is 0 whenever the grown span    *)
(* fits, -1 when it overflows before the container start and +1 when it    *)
(* overflows after the container end; the axis's inflect multiplier is the *)
(* negation, so a region that fits is not inflected on that axis.          *)
C7_CompareSpanFits ==
    op = "constrain" =>
        /\ flags.constrain_x = "inflect" =>
            /\ SpanComparison(Grown.x, right(Grown), other.x, right(other),
                              aux.compare[1])
            /\ aux.region.x = self.x
                   + (self.width + max_width(margin)) * (-aux.compare[1])
            /\ (Grown.x >= other.x /\ right(Grown) <= right(other))
                   => aux.region.x = self.x
        /\ flags.constrain_y = "inflect" =>
            /\ SpanComparison(Grown.y, bottom(Grown), other.y, bottom(other),
                              aux.compare[2])
            /\ aux.region.y = self.y
                   + (self.height + max_height(margin)) * (-aux.compare[2])
            /\ (Grown.y >= other.y /\ bottom(Grown) <= bottom(other))
                   => aux.region.y = self.y

(* What the code does instead: the comparison is 0 only when the grown     *)
(* span starts strictly after the container start.                         *)
C7_CompareSpanStrict ==
    op = "constrain" =>
        /\ flags.constrain_x = "inflect" =>
            aux.compare[1] =
                IF Grown.x > other.x /\ right(Grown) <= right(other) THEN 0
                ELSE IF Grown.x < other.x THEN -1 ELSE 1
        /\ flags.constrain_y = "inflect" =>
            aux.compare[2] =
                IF Grown.y > other.y /\ bottom(Grown) <= bottom(other) THEN 0
                ELSE IF Grown.y < other.y THEN -1 ELSE 1

C7_WitnessFlushFit ==
    /\ op = "constrain"
    /\ flags.constrain_x = "inflect"
    /\ Grown.x = other.x /\ right(Grown) <= right(other)
    /\ aux.compare[1] = 1
    /\ aux.region.x < self.x

(* The region constrain hands to translate_inside is self, or self         *)
(* inflected along the axes whose mode is "inflect".                       *)
OptionallyInflected ==
    IF flags.constrain_x = "inflect" \/ flags.constrain_y = "inflect"
    THEN \E x_axis \in -1..1, y_axis \in -1..1 :
            /\ flags.constrain_x # "inflect" => x_axis = 0
            /\ flags.constrain_y # "inflect" => y_axis = 0
            /\ aux.region = inflect(self, x_axis, y_axis, margin)
    ELSE aux.region = self

(* C18: constrain returns translate_inside of the optionally inflected     *)
(* region against container.shrink(margin), moving only the axes whose     *)
(* mode is not "none"; the result has self's width and height; an axis     *)
(* whose mode is "none" keeps self's coordinate whatever the other axis's  *)
(* mode; with both modes "none" the result is self.                        *)
C18_ConstrainShape ==
    op = "constrain" =>
        /\ OptionallyInflected
        /\ result = translate_inside(aux.region, shrink(other, margin),
                                     flags.constrain_x # "none",
                                     flags.constrain_y # "none")
        /\ result.width = self.width
        /\ result.height = self.height
        /\ flags.constrain_x = "none" => result.x = self.x
        /\ flags.constrain_y = "none" => result.y = self.y
        /\ (flags.constrain_x = "none" /\ flags.constrain_y = "none") => result = self

(* x is left alone although the region sticks out of the container on x    *)
(* and the y axis is inflected.                                            *)
C18_Witness ==
    /\ op = "constrain"
    /\ flags.constrain_x = "none"
    /\ flags.constrain_y = "inflect"
    /\ right(self) > right(shrink(other, margin))
    /\ aux.region.y # self.y
    /\ result.x = self.x
    /\ result.y # self.y

C18_WitnessBothNone ==
    /\ op = "constrain"
    /\ flags.constrain_x = "none"
    /\ flags.constrain_y = "none"
    /\ ~contains_region(other, self)
    /\ result = self

-----------------------------------------------------------------------------
(* Errors, and from_union.                                                 *)

Err(kind) == [error |-> kind]

IsErr(v) == "error" \in DOMAIN v

RECURSIVE iter_min(_)
iter_min(values) ==
    IF Len(values) = 1
    THEN values[1]
    ELSE imin(values[1], iter_min(Tail(values)))

RECURSIVE iter_max(_)
iter_max(values) ==
    IF Len(values) = 1
    THEN values[1]
    ELSE imax(values[1], iter_max(Tail(values)))

from_union_max_of_x(regions) ==
    IF regions = <<>>
    THEN Err("ValueError")
    ELSE LET min_x == iter_min([i \in 1..Len(regions) |-> regions[i].x])
             max_x == iter_max([i \in 1..Len(regions) |-> regions[i].x])
             min_y == iter_min([i \in 1..Len(regions) |-> regions[i].y])
             max_y == iter_max([i \in 1..Len(regions) |-> bottom(regions[i])])
         IN  Region(min_x, min_y, max_x - min_x, max_y - min_y)

from_union(regions) ==
    IF regions = <<>>
    THEN Err("ValueError")
    ELSE LET min_x == iter_min([i \in 1..Len(regions) |-> regions[i].x])
             max_x == iter_max([i \in 1..Len(regions) |-> right(regions[i])])
             min_y == iter_min([i \in 1..Len(regions) |-> regions[i].y])
             max_y == iter_max([i \in 1..Len(regions) |-> bottom(regions[i])])
         IN  Region(min_x, min_y, max_x - min_x, max_y - min_y)

-----------------------------------------------------------------------------
(* The call Region.from_union(regions): items is the collection.           *)

MaxLen == 3         \* a collection holds at most MaxLen regions

(* The sizes of the regions of a collection: an ordinary region and a      *)
(* region of negative width and zero height.                               *)
UnionShapes == {<<1, 2>>, <<-1, 0>>}

UnionRegions ==
    {Region(x, y, shape[1], shape[2]) : x \in Coords, y \in Coords, shape \in UnionShapes}

InitUnion ==
    /\ items \in UNION {[1..n -> UnionRegions] : n \in 0..MaxLen}
    /\ self = ZeroRegion
    /\ other = ZeroRegion
    /\ margin = ZeroSpacing
    /\ ints = NoInts
    /\ flags = DefaultFlags
    /\ op = "init_union"
    /\ result = NoResult
    /\ aux = NoAux

FromUnion ==
    /\ op = "init_union"
    /\ op' = "from_union"
    /\ result' = from_union(items)
    /\ UNCHANGED <<self, other, margin, ints, flags, items, aux>>

NextUnion == FromUnion

SpecUnion == InitUnion /\ [][NextUnion]_vars

SetMin(S) == CHOOSE v \in S : \A w \in S : v <= w

SetMax(S) == CHOOSE v \in S : \A w \in S : v >= w

Elements(seq) == {seq[i] : i \in 1..Len(seq)}

(* The bounding box of a non-empty set of regions, by its corners. *)
BoundingBox(S) ==
    LET x1 == SetMin({r.x : r \in S})
        y1 == SetMin({r.y : r \in S})
        x2 == SetMax({right(r) : r \in S})
        y2 == SetMax({bottom(r) : r \in S})
    IN  Region(x1, y1, x2 - x1, y2 - y1)

(* union folded over a non-empty sequence, left to right. *)
RECURSIVE FoldUnion(_, _)
FoldUnion(acc, seq) ==
    IF seq = <<>> THEN acc ELSE FoldUnion(union(acc, Head(seq)), Tail(seq))

(* seq with the elements at i and i + 1 exchanged. *)
SwapAt(seq, i) == [seq EXCEPT ![i] = seq[i + 1], ![i + 1] = seq[i]]

(* C11: from_union of an empty collection fails with an error and returns  *)
(* no Region; of a non-empty collection it returns the bounding box        *)
(* (min x, min y, max right, max bottom), which does not depend on the     *)
(* order of the collection (exchanging any two neighbours, which generates *)
(* every reordering, leaves it unchanged) and equals union folded over the *)
(* elements.                                                               *)
C11_FromUnion ==
    op = "from_union" =>
        IF items = <<>>
        THEN IsErr(result)
        ELSE /\ ~IsErr(result)
             /\ result = BoundingBox(Elements(items))
             /\ result.x = SetMin({r.x : r \in Elements(items)})
             /\ right(result) = SetMax({right(r) : r \in Elements(items)})
             /\ result = FoldUnion(Head(items), Tail(items))
             /\ \A i \in 1..(Len(items) - 1) : from_union(SwapAt(items, i)) = result

C11_Witness ==
    /\ op = "from_union"
    /\ Len(items) = 3
    /\ items[1].x > items[2].x
    /\ right(items[1]) < right(items[3])
    /\ bottom(items[2]) > bottom(items[3])
    /\ result = BoundingBox(Elements(items))
    /\ result \notin Elements(items)

C11_WitnessEmpty ==
    /\ op = "from_union"
    /\ items = <<>>
    /\ IsErr(result)

-----------------------------------------------------------------------------
(* Spacing.unpack.  The argument pad is a Python object: an int, a tuple   *)
(* of ints or another iterable of ints (a list).                           *)

PyInt(n) == [int |-> n]

PyTuple(values) == [tuple |-> values]

PyList(values) == [list |-> values]

IsPyInt(pad) == "int" \in DOMAIN pad

IsPyTuple(pad) == "tuple" \in DOMAIN pad

(* The integers of a tuple or a list, in order. *)
PyValues(pad) == IF IsPyTuple(pad) THEN pad.tuple ELSE pad.list

(* The vector the iteration of unpack builds: it stops with an error as    *)
(* soon as a fifth value has been pushed.                                  *)
unpack_values(pad) ==
    IF Len(PyValues(pad)) > 4 THEN SubSeq(PyValues(pad), 1, 5) ELSE PyValues(pad)

unpack_three_values(pad) ==
    IF IsPyInt(pad)
    THEN Spacing(pad.int, pad.int, pad.int, pad.int)
    ELSE IF IsPyTuple(pad) /\ Len(pad.tuple) = 1
    THEN Spacing(pad.tuple[1], pad.tuple[1], pad.tuple[1], pad.tuple[1])
    ELSE IF IsPyTuple(pad) /\ Len(pad.tuple) = 2
    THEN Spacing(pad.tuple[1], pad.tuple[2], pad.tuple[1], pad.tuple[2])
    ELSE IF IsPyTuple(pad) /\ Len(pad.tuple) = 4
    THEN Spacing(pad.tuple[1], pad.tuple[2], pad.tuple[3], pad.tuple[4])
    ELSE LET values == unpack_values(pad)
         IN  IF Len(values) > 4
             THEN Err("ValueError")
             ELSE CASE Len(values) = 1 ->
                         Spacing(values[1], values[1], values[1], values[1])
                    [] Len(values) = 2 ->
                         Spacing(values[1], values[2], values[1], values[2])
                    [] Len(values) = 3 ->
                         Spacing(values[1], values[2], values[3], values[2])
                    [] Len(values) = 4 ->
                         Spacing(values[1], values[2], values[3], values[4])
                    [] OTHER -> Err("ValueError")

unpack(pad) ==
    IF IsPyInt(pad)
    THEN Spacing(pad.int, pad.int, pad.int, pad.int)
    ELSE IF IsPyTuple(pad) /\ Len(pad.tuple) = 1
    THEN Spacing(pad.tuple[1], pad.tuple[1], pad.tuple[1], pad.tuple[1])
    ELSE IF IsPyTuple(pad) /\ Len(pad.tuple) = 2
    THEN Spacing(pad.tuple[1], pad.tuple[2], pad.tuple[1], pad.tuple[2])
    ELSE IF IsPyTuple(pad) /\ Len(pad.tuple) = 4
    THEN Spacing(pad.tuple[1], pad.tuple[2], pad.tuple[3], pad.tuple[4])
    ELSE LET values == unpack_values(pad)
         IN  IF Len(values) > 4
             THEN Err("ValueError")
             ELSE CASE Len(values) = 1 ->
                         Spacing(values[1], values[1], values[1], values[1])
                    [] Len(values) = 2 ->
                         Spacing(values[1], values[2], values[1], values[2])
                    [] Len(values) = 4 ->
                         Spacing(values[1], values[2], values[3], values[4])
                    [] OTHER -> Err("ValueError")

-----------------------------------------------------------------------------
(* The call Spacing.unpack(pad): items is pad.                             *)

MaxPad == 2         \* the integers of pad lie in -1..MaxPad
MaxPadLen == 5      \* a sequence pad holds at most MaxPadLen integers

PadValues == (-1)..MaxPad

PadSeqs == UNION {[1..n -> PadValues] : n \in 0..MaxPadLen}

Pads ==
    {PyInt(n) : n \in PadValues}
        \cup {PyTuple(values) : values \in PadSeqs}
        \cup {PyList(values) : values \in PadSeqs}

InitUnpack ==
    /\ items \in Pads
    /\ self = ZeroRegion
    /\ other = ZeroRegion
    /\ margin = ZeroSpacing
    /\ ints = NoInts
    /\ flags = DefaultFlags
    /\ op = "init_unpack"
    /\ result = NoResult
    /\ aux = NoAux

Unpack ==
    /\ op = "init_unpack"
    /\ op' = "unpack"
    /\ result' = unpack(items)
    /\ UNCHANGED <<self, other, margin, ints, flags, items, aux>>

NextUnpack == Unpack

SpecUnpack == InitUnpack /\ [][NextUnpack]_vars

(* C12: unpack of an integer n or of a sequence of length 1 is             *)
(* Spacing(n,n,n,n); of a sequence (top,right) it is                       *)
(* Spacing(top,right,top,right); of a sequence of length 4 it is the       *)
(* Spacing of its four values in order; a sequence of integers of any      *)
(* other length (0, 3, 5 or more) gives an error and no Spacing.  A        *)
(* sequence is a tuple or a list.                                          *)
C12_UnpackShapes ==
    op = "unpack" =>
        IF IsPyInt(items)
        THEN result = Spacing(items.int, items.int, items.int, items.int)
        ELSE LET s == PyValues(items)
             IN  /\ Len(s) = 1 => result = Spacing(s[1], s[1], s[1], s[1])
                 /\ Len(s) = 2 => result = Spacing(s[1], s[2], s[1], s[2])
                 /\ Len(s) = 4 => result = Spacing(s[1], s[2], s[3], s[4])
                 /\ Len(s) \notin {1, 2, 4} => IsErr(result)
                 /\ Len(s) \in {1, 2, 4} => ~IsErr(result)

C12_Witness ==
    /\ op = "unpack"
    /\ IsPyTuple(items)
    /\ Len(items.tuple) = 3
    /\ IsErr(result)

C12_WitnessTooMany ==
    /\ op = "unpack"
    /\ ~IsPyInt(items)
    /\ Len(PyValues(items)) = 5
    /\ IsErr(result)

C12_WitnessPair ==
    /\ op = "unpack"
    /\ ~IsPyInt(items)
    /\ ~IsPyTuple(items)
    /\ Len(PyValues(items)) = 2
    /\ result = Spacing(1, 2, 1, 2)

-----------------------------------------------------------------------------
(* Claims about union and overlaps of two regions.                         *)

(* C13: union is commutative: for all Regions a and b, of any width and    *)
(* height, a.union(b) == b.union(a).                                       *)
C13_UnionCommutes ==
    op = "union" => result = union(other, self)

C13_Witness ==
    /\ op = "union"
    /\ self.x > other.x
    /\ right(self) > right(other)
    /\ self.y < other.y
    /\ other.width < 0
    /\ result \notin {self, other}
    /\ result = union(other, self)

-----------------------------------------------------------------------------
(* Offset.clamp and Size.clamp_offset.  self is the Offset, ints the       *)
(* width and height.                                                       *)

offset_clamp_to_extent(offset, width, height) ==
    GeometryOffset(clamp(offset.x, 0, width), clamp(offset.y, 0, height - 1))

offset_clamp(offset, width, height) ==
    GeometryOffset(clamp(offset.x, 0, width - 1), clamp(offset.y, 0, height - 1))

clamp_offset(sz, offset) == offset_clamp(offset, sz.width, sz.height)

OffsetCoords == (-(MaxCut + 1))..(MaxCut + 1)

Offsets == [x : OffsetCoords, y : OffsetCoords]

InitClamp ==
    /\ self \in Offsets
    /\ ints \in CutValues \X CutValues
    /\ other = ZeroRegion
    /\ margin = ZeroSpacing
    /\ flags = DefaultFlags
    /\ items = NoItems
    /\ op = "init_clamp"
    /\ result = NoResult
    /\ aux = NoAux

OffsetClamp ==
    /\ op = "init_clamp"
    /\ op' = "clamp"
    /\ result' = offset_clamp(self, ints[1], ints[2])
    /\ UNCHANGED <<self, other, margin, ints, flags, items, aux>>

ClampOffset ==
    /\ op = "init_clamp"
    /\ op' = "clamp_offset"
    /\ result' = clamp_offset(Size(ints[1], ints[2]), self)
    /\ UNCHANGED <<self, other, margin, ints, flags, items, aux>>

NextClamp == OffsetClamp \/ ClampOffset

SpecClamp == InitClamp /\ [][NextClamp]_vars

(* value clamped into low..high: inside the range, and unchanged when it   *)
(* was inside already.                                                     *)
ClampedInto(value, clamped, low, high) ==
    /\ clamped \in low..high
    /\ value \in low..high => clamped = value

(* C14: Offset.clamp(width, height), and Size(width, height).clamp_offset, *)
(* return x in [0, width-1] when width >= 1 and y in [0, height-1] when    *)
(* height >= 1, a component already in range being unchanged; when         *)
(* width-1 < 0 (height-1 < 0) the call still returns an Offset, whose x    *)
(* (y) lies in [width-1, 0] ([height-1, 0]).                               *)
C14_ClampOffset ==
    op \in {"clamp", "clamp_offset"} =>
        /\ ~IsErr(result)
        /\ ints[1] >= 1 => ClampedInto(self.x, result.x, 0, ints[1] - 1)
        /\ ints[2] >= 1 => ClampedInto(self.y, result.y, 0, ints[2] - 1)
        /\ ints[1] - 1 < 0 => result.x \in (ints[1] - 1)..0
        /\ ints[2] - 1 < 0 => result.y \in (ints[2] - 1)..0

C14_Witness ==
    /\ op = "clamp"
    /\ ints[1] >= 1
    /\ ints[2] >= 1
    /\ self.x > ints[1] - 1
    /\ self.y \in 1..(ints[2] - 1)
    /\ result = GeometryOffset(ints[1] - 1, self.y)

C14_WitnessInverted ==
    /\ op = "clamp_offset"
    /\ ints[1] < 0
    /\ self.x < ints[1] - 1
    /\ self.y > 0
    /\ ints[2] = 0
    /\ result = GeometryOffset(ints[1] - 1, 0)

-----------------------------------------------------------------------------
(* split_horizontal and split_vertical.  self is the region, ints[1] the   *)
(* cut.                                                                    *)

split_horizontal_near_edge(r, cut0) ==
    LET cut == cut0
    IN  << Region(r.x, r.y, r.width, cut),
           Region(r.x, r.y + cut, r.width, r.height - cut) >>

split_horizontal(r, cut0) ==
    LET cut == IF cut0 < 0 THEN r.height + cut0 ELSE cut0
    IN  << Region(r.x, r.y, r.width, cut),
           Region(r.x, r.y + cut, r.width, r.height - cut) >>

split_vertical(r, cut0) ==
    LET cut == IF cut0 < 0 THEN r.width + cut0 ELSE cut0
    IN  << Region(r.x, r.y, cut, r.height),
           Region(r.x + cut, r.y, r.width - cut, r.height) >>

InitSplit ==
    /\ self \in SignedRegions
    /\ ints \in CutValues \X {0}
    /\ other = ZeroRegion
    /\ margin = ZeroSpacing
    /\ flags = DefaultFlags
    /\ items = NoItems
    /\ op = "init_split"
    /\ result = NoResult
    /\ aux = NoAux

SplitHorizontal ==
    /\ op = "init_split"
    /\ op' = "split_horizontal"
    /\ result' = split_horizontal(self, ints[1])
    /\ UNCHANGED <<self, other, margin, ints, flags, items, aux>>

SplitVertical ==
    /\ op = "init_split"
    /\ op' = "split_vertical"
    /\ result' = split_vertical(self, ints[1])
    /\ UNCHANGED <<self, other, margin, ints, flags, items, aux>>

NextSplit == SplitHorizontal \/ SplitVertical

SpecSplit == InitSplit /\ [][NextSplit]_vars

(* C15: a negative cut counts from the far edge: for cut < 0,              *)
(* split_horizontal of (x,y,w,h) is (Region(x,y,w,h+cut),                  *)
(* Region(x,y+h+cut,w,-cut)) and split_vertical is (Region(x,y,w+cut,h),   *)
(* Region(x+w+cut,y,-cut,h)); for every cut the two parts keep the         *)
(* region's position and extent on the uncut axis, the second starts where *)
(* the first ends, and their extents on the cut axis sum to the region's.  *)
C15_SplitTwoWay ==
    LET cut == ints[1]
        first == result[1]
        second == result[2]
    IN  /\ op = "split_horizontal" =>
            /\ cut < 0 =>
                 result = << Region(self.x, self.y, self.width, self.height + cut),
                             Region(self.x, self.y + self.height + cut, self.width, -cut) >>
            /\ first.x = self.x /\ second.x = self.x
            /\ first.width = self.width /\ second.width = self.width
            /\ first.y = self.y
            /\ second.y = bottom(first)
            /\ first.height + second.height = self.height
        /\ op = "split_vertical" =>
            /\ cut < 0 =>
                 result = << Region(self.x, self.y, self.width + cut, self.height),
                             Region(self.x + self.width + cut, self.y, -cut, self.height) >>
            /\ first.y = self.y /\ second.y = self.y
            /\ first.height = self.height /\ second.height = self.height
            /\ first.x = self.x
            /\ second.x = right(first)
            /\ first.width + second.width = self.width

C15_Witness ==
    /\ op = "split_horizontal"
    /\ ints[1] < 0
    /\ self.height + ints[1] > 0
    /\ result[1].height = self.height + ints[1]
    /\ result[2].height = -ints[1]
    /\ result[2].y = self.y + self.height + ints[1]

C15_WitnessVertical ==
    /\ op = "split_vertical"
    /\ ints[1] < 0
    /\ self.width + ints[1] > 0
    /\ result[1].width = self.width + ints[1]
    /\ result[2] = Region(self.x + self.width + ints[1], self.y, -ints[1], self.height)

C15_WitnessPositiveCut ==
    /\ op = "split_vertical"
    /\ ints[1] > 0
    /\ ints[1] < self.width
    /\ result[2].x = self.x + ints[1]

(* C19, as stated: overlaps is symmetric for all Regions a and b of        *)
(* non-negative width and height: a.overlaps(b) == b.overlaps(a).          *)
C19_OverlapsSymmetricNonNegative ==
    (op = "overlaps" /\ NonNegative(self) /\ NonNegative(other)) =>
        (result <=> overlaps(other, self))

(* C19, amended: overlaps is symmetric for all Regions a and b of positive *)
(* width and height.                                                       *)
C19_OverlapsSymmetricPositive ==
    (op = "overlaps" /\ Positive(self) /\ Positive(other)) =>
        (result <=> overlaps(other, self))

C19_Witness ==
    /\ op = "overlaps"
    /\ Positive(self) /\ Positive(other)
    /\ other.x < self.x /\ right(self) < right(other)
    /\ other.y > self.y
    /\ result = TRUE
    /\ overlaps(other, self)

(* A region of zero width on the left edge of a positive one. *)
C19_WitnessZeroWidth ==
    /\ op = "overlaps"
    /\ self.width = 0 /\ self.height > 0
    /\ Positive(other)
    /\ self.x = other.x
    /\ result = FALSE
    /\ overlaps(other, self)

-----------------------------------------------------------------------------
(* Spacing.css.  A String is the sequence of its characters.               *)

Digits == <<"0", "1", "2", "3", "4", "5", "6", "7", "8", "9">>

RECURSIVE format_nat(_)
format_nat(n) ==
    IF n < 10
    THEN <<Digits[n + 1]>>
    ELSE format_nat(n \div 10) \o <<Digits[(n % 10) + 1]>>

(* format!("{}", n) for an i32 n. *)
format_i32(n) == IF n < 0 THEN <<"-">> \o format_nat(-n) ELSE format_nat(n)

css_pair_on_top(s) ==
    IF s.top = s.right /\ s.right = s.bottom /\ s.bottom = s.left /\ s.left = s.top
    THEN format_i32(s.top)
    ELSE IF s.top = s.bottom
    THEN format_i32(s.top) \o <<" ">> \o format_i32(s.right)
    ELSE format_i32(s.top) \o <<" ">> \o format_i32(s.right) \o <<" ">>
            \o format_i32(s.bottom) \o <<" ">> \o format_i32(s.left)

css(s) ==
    IF s.top = s.right /\ s.right = s.bottom /\ s.bottom = s.left /\ s.left = s.top
    THEN format_i32(s.top)
    ELSE IF <<s.top, s.right>> = <<s.bottom, s.left>>
    THEN format_i32(s.top) \o <<" ">> \o format_i32(s.right)
    ELSE format_i32(s.top) \o <<" ">> \o format_i32(s.right) \o <<" ">>
            \o format_i32(s.bottom) \o <<" ">> \o format_i32(s.left)

-----------------------------------------------------------------------------
(* The calls margin.css and Spacing.unpack of the integers css printed.    *)

MaxCss == 12        \* the largest side of a Spacing that is printed

CssValues == {-MaxCss, -1, 0, 1, MaxCss}

CssSpacings == [top : CssValues, right : CssValues, bottom : CssValues, left : CssValues]

(* The words of a text: its maximal runs of characters other than " ". *)
RECURSIVE Words(_)
Words(text) ==
    IF text = <<>>
    THEN <<>>
    ELSE LET stops == {i \in 1..Len(text) : text[i] = " "} \cup {Len(text) + 1}
             k == CHOOSE i \in stops : \A j \in stops : i <= j
         IN  <<SubSeq(text, 1, k - 1)>> \o Words(SubSeq(text, k + 1, Len(text)))

DigitValue(c) == CHOOSE d \in 0..9 : Digits[d + 1] = c

RECURSIVE ParseNat(_)
ParseNat(chars) ==
    IF Len(chars) = 1
    THEN DigitValue(chars[1])
    ELSE 10 * ParseNat(SubSeq(chars, 1, Len(chars) - 1)) + DigitValue(chars[Len(chars)])

ParseInt(chars) == IF chars[1] = "-" THEN -ParseNat(Tail(chars)) ELSE ParseNat(chars)

(* The sequence of integers a text prints, in decimal. *)
PrintedIntegers(text) == [i \in 1..Len(Words(text)) |-> ParseInt(Words(text)[i])]

InitCss ==
    /\ margin \in CssSpacings
    /\ self = ZeroRegion
    /\ other = ZeroRegion
    /\ ints = NoInts
    /\ flags = DefaultFlags
    /\ items = NoItems
    /\ op = "init_css"
    /\ result = NoResult
    /\ aux = NoAux

Css ==
    /\ op = "init_css"
    /\ op' = "css"
    /\ result' = css(margin)
    /\ UNCHANGED <<self, other, margin, ints, flags, items, aux>>

(* Spacing.unpack of the printed integers, passed as a tuple or as a list. *)
UnpackCss ==
    /\ op = "css"
    /\ op' = "unpack_css"
    /\ items' \in {PyTuple(PrintedIntegers(result)), PyList(PrintedIntegers(result))}
    /\ result' = unpack(items')
    /\ aux' = [css |-> result]
    /\ UNCHANGED <<self, other, margin, ints, flags>>

NextCss == Css \/ UnpackCss

SpecCss == InitCss /\ [][NextCss]_vars

AllSidesEqual(s) == s.top = s.right /\ s.right = s.bottom /\ s.bottom = s.left

OppositeSidesEqual(s) == s.top = s.bottom /\ s.right = s.left

(* C20: css prints one integer when the four sides are equal, two (top,    *)
(* right) when otherwise top = bottom and right = left, and else the four  *)
(* sides in the order top, right, bottom, left; unpack accepts the printed *)
(* sequence of integers and returns the Spacing css was called on.         *)
C20_CssUnpackRoundTrip ==
    /\ op = "css" =>
         PrintedIntegers(result) =
            IF AllSidesEqual(margin) THEN <<margin.top>>
            ELSE IF OppositeSidesEqual(margin) THEN <<margin.top, margin.right>>
            ELSE <<margin.top, margin.right, margin.bottom, margin.left>>
    /\ op = "unpack_css" =>
         /\ Len(PyValues(items)) \in {1, 2, 4}
         /\ ~IsErr(result)
         /\ result = margin

C20_Witness ==
    /\ op = "unpack_css"
    /\ OppositeSidesEqual(margin)
    /\ margin.top = MaxCss
    /\ margin.right = -MaxCss
    /\ Len(aux.css) = 6
    /\ PyValues(items) = <<MaxCss, -MaxCss>>
    /\ result = margin

C20_WitnessFour ==
    /\ op = "unpack_css"
    /\ margin.top = margin.bottom
    /\ margin.right # margin.left
    /\ IsPyTuple(items)
    /\ Len(items.tuple) = 4
    /\ result = margin

C20_WitnessOne ==
    /\ op = "css"
    /\ AllSidesEqual(margin)
    /\ result = <<"-", "1">>

(* C21: get_spacing_between is the inverse of shrink: for every Region r,  *)
(* of any width and height, and every Region other of non-negative width   *)
(* and height, r.shrink(r.get_spacing_between(other)) == other.            *)
C21_ShrinkSpacingBetween ==
    (op = "shrink_spacing_between" /\ NonNegative(other)) => result = other

(* other sticks out of self on the right and starts below it, so the       *)
(* spacing has a negative side and a positive one.                         *)
C21_Witness ==
    /\ op = "shrink_spacing_between"
    /\ Positive(self) /\ Positive(other)
    /\ aux.spacing.right < 0
    /\ aux.spacing.top > 0
    /\ aux.spacing.left > 0
    /\ result = other
    /\ result # self

C21_WitnessNegativeSelf ==
    /\ op = "shrink_spacing_between"
    /\ self.width < 0 /\ self.height < 0
    /\ Positive(other)
    /\ result = other

-----------------------------------------------------------------------------
Init == InitMargin \/ InitPair \/ InitCut \/ InitScroll \/ InitInside \/ InitConstrain \/ InitUnion \/ InitUnpack \/ InitClamp \/ InitSplit \/ InitCss

Next == NextMargin \/ NextPair \/ NextCut \/ NextScroll \/ NextInside \/ NextConstrain \/ NextUnion \/ NextUnpack \/ NextClamp \/ NextSplit \/ NextCss

Spec == Init /\ [][Next]_vars

=============================================================================
